---- MODULE Spec2Model ----
(***************************************************************************)
(* Model of the GarIA detection pipeline: ObjectDetectionService           *)
(* (app/services/ml/object_detection_service.py), the YOLO model loader    *)
(* and inference wrapper (app/infrastructure/ml/yolo_model.py) and the     *)
(* domain entities (app/domain/ml/entities.py).                            *)
(*                                                                         *)
(* Conventions.                                                            *)
(*  - Python None is the empty tuple <<>>; a present optional value x is   *)
(*    the one-element tuple <<x>>.                                         *)
(*  - Real numbers in [0,1] (confidences, thresholds) are kept in          *)
(*    hundredths: 25 stands for 0.25, 100 for 1.0, 150 for 1.5.            *)
(*  - A Python dict is a function whose domain is its key set.             *)
(*  - The Detector (ultralytics YOLO) is external: every image source of   *)
(*    the model carries what the Detector does with it (whether it can     *)
(*    read it, the raw boxes it returns, the seconds it takes).            *)
(***************************************************************************)
EXTENDS Integers, Sequences, FiniteSets, TLC

VARIABLES
    model_config,   \* ObjectDetectionService.model_config
    model,          \* YOLOModelLoader.model
    model_path,     \* YOLOModelLoader.model_path
    call,           \* sequential use: the call being observed (operation, inputs, outcome)
    th              \* concurrent use: each request thread's position and locals

vars == <<model_config, model, model_path, call, th>>

None == <<>>

Some(x) == <<x>>

----------------------------------------------------------------------------
(* Bounds of the model. *)

\* longest image_sources list given to detect_objects_batch
MaxBatch == 2

----------------------------------------------------------------------------
(* Program constants. *)

DefaultConfidence == 25

DefaultIou == 45

DefaultMaxDetections == 1000

DefaultModelName == "GarIA.pt"

DefaultModelPath == "models/GarIA.pt"

\* the Exception subclasses the modelled code and the Detector raise
ExceptionTypes == {"AttributeError", "ValueError", "TypeError", "FileNotFoundError"}

----------------------------------------------------------------------------
(* dict helpers *)

\* dict.get(k, default)
Get(d, k, default) == IF k \in DOMAIN d THEN d[k] ELSE default

\* dict.update(c), as a new dict
Update(d, c) ==
    [k \in (DOMAIN d) \cup (DOMAIN c) |-> IF k \in DOMAIN c THEN c[k] ELSE d[k]]

----------------------------------------------------------------------------
(* Domain entities *)

BoundingBox(x1, y1, x2, y2) == [x1 |-> x1, y1 |-> y1, x2 |-> x2, y2 |-> y2]

ModelConfiguration(name, path, conf, iou, maxdet, targets) ==
    [model_name |-> name, model_path |-> path,
     confidence_threshold |-> conf, iou_threshold |-> iou,
     max_detections |-> maxdet, target_classes |-> targets]

\* ModelConfiguration.is_valid
ConfigIsValid(c) ==
    /\ 0 <= c.confidence_threshold /\ c.confidence_threshold <= 100
    /\ 0 <= c.iou_threshold /\ c.iou_threshold <= 100
    /\ c.max_detections > 0

\* Detection, as built by _convert_to_domain_entities
Detection(class_id, class_name, confidence, bbox, bbox_normalized) ==
    [class_id |-> class_id, class_name |-> class_name, confidence |-> confidence,
     bbox |-> bbox, bbox_normalized |-> bbox_normalized]

DetectionResult(detections, image_info, processing_time, model_info) ==
    [detections |-> detections, image_info |-> image_info,
     processing_time |-> processing_time, model_info |-> model_info]

\* BoundingBox.width and BoundingBox.height
width(bbox) == bbox.x2 - bbox.x1

height(bbox) == bbox.y2 - bbox.y1

\* a validity test that accepts a box of no extent
is_valid_flat_box(d, min_confidence) ==
    /\ d.confidence >= min_confidence
    /\ 0 <= d.confidence /\ d.confidence <= 100
    /\ width(d.bbox) >= 0
    /\ height(d.bbox) >= 0

\* Detection.is_valid
is_valid(d, min_confidence) ==
    /\ d.confidence >= min_confidence
    /\ 0 <= d.confidence /\ d.confidence <= 100
    /\ width(d.bbox) > 0
    /\ height(d.bbox) > 0

\* DetectionResult.detection_count
detection_count(r) == Len(r.detections)

\* DetectionResult.unique_classes: list(set(...)), whose order Python does not
\* fix, kept as the set
unique_classes(r) == {r.detections[i].class_name : i \in 1..Len(r.detections)}

\* a filter that keeps only the detections strictly above the minimum
filter_by_confidence_strict(r, min_confidence) ==
    SelectSeq(r.detections, LAMBDA d : d.confidence > min_confidence)

\* DetectionResult.filter_by_confidence
filter_by_confidence(r, min_confidence) ==
    SelectSeq(r.detections, LAMBDA d : d.confidence >= min_confidence)

\* a / b of two Python floats, kept exact as the pair; x as the float x / 1
Quotient(a, b) == [num |-> a, den |-> b]

Float(x) == Quotient(x, 1)

\* sum, max and min of a list of confidences
RECURSIVE Sum(_)
Sum(xs) == IF xs = <<>> THEN 0 ELSE Head(xs) + Sum(Tail(xs))

Max(xs) == CHOOSE x \in {xs[i] : i \in 1..Len(xs)} : \A i \in 1..Len(xs) : xs[i] <= x

Min(xs) == CHOOSE x \in {xs[i] : i \in 1..Len(xs)} : \A i \in 1..Len(xs) : x <= xs[i]

\* statistics whose average is the quotient even for an empty result
get_statistics_unguarded(r) ==
    LET confidences == [i \in 1..Len(r.detections) |-> r.detections[i].confidence]
    IN IF r.detections = <<>>
       THEN [total_detections |-> 0, unique_classes |-> {},
             avg_confidence |-> Quotient(Sum(confidences), Len(confidences)),
             max_confidence |-> 0, min_confidence |-> 0]
       ELSE [total_detections |-> Len(r.detections),
             unique_classes |-> unique_classes(r),
             avg_confidence |-> Quotient(Sum(confidences), Len(confidences)),
             max_confidence |-> Max(confidences),
             min_confidence |-> Min(confidences),
             processing_time |-> r.processing_time]

\* DetectionResult.get_statistics
get_statistics(r) ==
    IF r.detections = <<>>
    THEN [total_detections |-> 0, unique_classes |-> {},
          avg_confidence |-> Float(0), max_confidence |-> 0, min_confidence |-> 0]
    ELSE LET confidences == [i \in 1..Len(r.detections) |-> r.detections[i].confidence]
         IN [total_detections |-> Len(r.detections),
             unique_classes |-> unique_classes(r),
             avg_confidence |-> Quotient(Sum(confidences), Len(confidences)),
             max_confidence |-> Max(confidences),
             min_confidence |-> Min(confidences),
             processing_time |-> r.processing_time]

----------------------------------------------------------------------------
(* Inputs: model names, configurations, overrides, image sources. *)

ModelNames == {"GarIA.pt", "yolov8n.pt"}

\* what YOLOInference.predict formats for one box (yolo_model.py 121-137)
RawBottle ==
    [class_id |-> 0, class_name |-> "bottle", confidence |-> 90,
     bbox |-> [x1 |-> 0, y1 |-> 0, x2 |-> 10, y2 |-> 10],
     bbox_normalized |-> [x |-> 50, y |-> 50, width |-> 100, height |-> 100]]

RawBag ==
    [class_id |-> 1, class_name |-> "bag", confidence |-> 10,
     bbox |-> [x1 |-> 5, y1 |-> 5, x2 |-> 8, y2 |-> 8],
     bbox_normalized |-> [x |-> 65, y |-> 65, width |-> 30, height |-> 30]]

\* An image source: its Python type, whether the Detector can read it, whether
\* PIL's Image.open can open it (strings only), its size, and what the Detector
\* returns for it and how long it takes.
ImageSource(type, id, readable, openable, preds, seconds) ==
    [type |-> type, id |-> id, readable |-> readable, openable |-> openable,
     width |-> 10, height |-> 10, preds |-> preds, seconds |-> seconds]

LocalFile == ImageSource("str", "img/a.jpg", TRUE, TRUE, <<RawBottle, RawBag>>, 2)

\* a URL string: the Detector downloads it, Image.open cannot open it
UrlImage == ImageSource("str", "https://example.com/b.jpg", TRUE, FALSE, <<RawBag>>, 3)

MissingFile == ImageSource("str", "img/missing.jpg", FALSE, FALSE, <<>>, 0)

PilImage == ImageSource("pil", "pil", TRUE, TRUE, <<>>, 0)

NumpyArray == ImageSource("ndarray", "array", TRUE, TRUE, <<RawBag, RawBottle>>, 1)

OtherSource == ImageSource("other", "tensor", TRUE, TRUE, <<RawBottle>>, 1)

Sources == {LocalFile, UrlImage, MissingFile, PilImage, NumpyArray, OtherSource}

BatchSources == {LocalFile, UrlImage, MissingFile}

OverrideKeys == {"confidence", "iou_threshold", "max_detections"}

OverrideValues(k) ==
    CASE k = "confidence" -> {50, 150}
      [] k = "iou_threshold" -> {30, 120}
      [] k = "max_detections" -> {10, 0}

AllOverrideValues == UNION {OverrideValues(k) : k \in OverrideKeys}

\* the custom_config dicts: every partial assignment of the three keys
OverrideDicts ==
    {d \in UNION {[K -> AllOverrideValues] : K \in SUBSET OverrideKeys} :
        \A k \in DOMAIN d : d[k] \in OverrideValues(k)}

\* custom_config: Optional[Dict], None being the default of the parameter
Overrides == {None} \cup {Some(d) : d \in OverrideDicts}

\* the overrides given to a batch: none, empty, or one key set
BatchOverrides ==
    {None} \cup {Some(d) : d \in {e \in OverrideDicts : Cardinality(DOMAIN e) <= 1}}

\* configurations a caller hands to initialize_model
InitConfigs ==
    {ModelConfiguration("GarIA.pt", "models/GarIA.pt", 25, 45, 1000, None),
     ModelConfiguration("GarIA.pt", "models/GarIA.pt", 50, 30, 10, Some(<<"bottle">>)),
     ModelConfiguration("yolov8n.pt", "models/yolov8n.pt", 60, 45, 1000, Some(<<"bag", "bottle">>)),
     ModelConfiguration("yolov8n.pt", "models/yolov8n.pt", 25, 45, 1000, None),
     ModelConfiguration("GarIA.pt", "models/GarIA.pt", 150, 45, 1000, None),
     ModelConfiguration("yolov8n.pt", "models/yolov8n.pt", 25, 45, 0, Some(<<"bottle">>))}

----------------------------------------------------------------------------
(* The state of the service and its loader, as one value. *)

ServiceState(mc, m, mp) == [model_config |-> mc, model |-> m, model_path |-> mp]

Current == ServiceState(model_config, model, model_path)

\* the object YOLO(model_path) builds
YOLO(model_name) == [weights |-> model_name, device |-> "cpu", task |-> "detect"]

Error(type, msg) == [type |-> type, msg |-> msg]

----------------------------------------------------------------------------
(* YOLOModelLoader *)

\* load_model: load_ok is whether YOLO(model_path) succeeds
load_model(s, model_name, load_ok) ==
    IF s.model # None /\ s.model_path = Some(model_name)
    THEN [s |-> s, raised |-> FALSE, loaded |-> FALSE]
    ELSE IF load_ok
         THEN [s |-> [s EXCEPT !.model = Some(YOLO(model_name)),
                               !.model_path = Some(model_name)],
               raised |-> FALSE, loaded |-> TRUE]
         ELSE [s |-> s, raised |-> TRUE, loaded |-> FALSE]

get_model_info(s) ==
    IF s.model = None
    THEN [status |-> "not_loaded"]
    ELSE [status |-> "loaded", model_path |-> s.model_path,
          device |-> s.model[1].device, task |-> s.model[1].task]

unload_model(s) ==
    IF s.model # None
    THEN [s EXCEPT !.model = None, !.model_path = None]
    ELSE s

----------------------------------------------------------------------------
(* YOLOInference *)

\* predict: infer is the call made on the model object (line 107), None when
\* the loader holds no model and predict raises before calling it
predict(s, source, confidence, iou_threshold, max_detections, classes) ==
    IF s.model = None
    THEN [raised |-> TRUE,
          error |-> Some(Error("ValueError", "Modelo nao carregado. Chame load_model() primeiro.")),
          infer |-> None, raw |-> <<>>]
    ELSE LET inv == [handle |-> s.model[1], source |-> source.id,
                     conf |-> confidence, iou |-> iou_threshold,
                     max_det |-> max_detections, classes |-> classes]
         IN IF source.readable
            THEN [raised |-> FALSE, error |-> None, infer |-> Some(inv),
                  raw |-> source.preds]
            ELSE [raised |-> TRUE,
                  error |-> Some(Error("FileNotFoundError", "image not readable")),
                  infer |-> Some(inv), raw |-> <<>>]

----------------------------------------------------------------------------
(* ObjectDetectionService *)

\* a service that asks the loader for the model before it looks at the
\* configuration
initialize_model_load_first(s, cfg, load_ok) ==
    LET l == load_model(s, cfg.model_name, load_ok)
    IN IF ~ConfigIsValid(cfg)
       THEN [s |-> l.s, ret |-> FALSE, loaded |-> l.loaded]
       ELSE [s |-> [l.s EXCEPT !.model_config = Some(cfg)], ret |-> ~l.raised,
             loaded |-> l.loaded]

\* a service that took the configuration without looking at it
initialize_model_unchecked(s, cfg, load_ok) ==
    LET l == load_model([s EXCEPT !.model_config = Some(cfg)], cfg.model_name, load_ok)
    IN [s |-> l.s, ret |-> ~l.raised, loaded |-> l.loaded]

\* initialize_model: the configuration is stored before the load is tried; a
\* failed load is swallowed and reported as False
initialize_model(s, cfg, load_ok) ==
    IF ~ConfigIsValid(cfg)
    THEN [s |-> s, ret |-> FALSE, loaded |-> FALSE]
    ELSE LET s1 == [s EXCEPT !.model_config = Some(cfg)]
             l == load_model(s1, cfg.model_name, load_ok)
         IN [s |-> l.s, ret |-> ~l.raised, loaded |-> l.loaded]

\* the ModelConfiguration detect_objects builds from custom_config (lines 47-53)
RequestConfig(custom) ==
    ModelConfiguration(DefaultModelName, DefaultModelPath,
                       Get(custom, "confidence", DefaultConfidence),
                       Get(custom, "iou_threshold", DefaultIou),
                       Get(custom, "max_detections", DefaultMaxDetections),
                       None)

\* _merge_configs, for a service whose model_config is set
_merge_configs(s, custom) ==
    LET default_config ==
            [k \in OverrideKeys |->
                CASE k = "confidence" -> s.model_config[1].confidence_threshold
                  [] k = "iou_threshold" -> s.model_config[1].iou_threshold
                  [] k = "max_detections" -> s.model_config[1].max_detections]
    IN Update(default_config, custom)

\* a conversion that keeps only the predictions at or above the default
\* confidence
_convert_confident_only(raw_detections) ==
    LET kept == SelectSeq(raw_detections, LAMBDA raw : raw.confidence >= DefaultConfidence)
    IN [i \in 1..Len(kept) |->
           Detection(kept[i].class_id, kept[i].class_name, kept[i].confidence,
                     BoundingBox(kept[i].bbox.x1, kept[i].bbox.y1,
                                 kept[i].bbox.x2, kept[i].bbox.y2),
                     Get(kept[i], "bbox_normalized", None))]

\* _convert_to_domain_entities
_convert_to_domain_entities(raw_detections) ==
    [i \in 1..Len(raw_detections) |->
        LET raw == raw_detections[i]
            bbox == BoundingBox(raw.bbox.x1, raw.bbox.y1, raw.bbox.x2, raw.bbox.y2)
        IN Detection(raw.class_id, raw.class_name, raw.confidence, bbox,
                     Get(raw, "bbox_normalized", None))]

\* x in a Python list
InList(x, list) == \E i \in 1..Len(list) : list[i] = x

\* the target_classes filter of detect_objects (lines 75-79)
FilterTargetClasses(s, detections) ==
    IF s.model_config[1].target_classes # None
    THEN SelectSeq(detections,
                   LAMBDA d : InList(d.class_name, s.model_config[1].target_classes[1]))
    ELSE detections

\* _get_image_info whose except branch returns the error description alone
_get_image_info_untagged(image_source) ==
    CASE image_source.type = "str" ->
            IF image_source.openable
            THEN [width |-> image_source.width, height |-> image_source.height,
                  format |-> "JPEG", mode |-> "RGB", source_type |-> "file_path"]
            ELSE [error |-> "cannot open image"]
      [] image_source.type = "pil" ->
            [width |-> image_source.width, height |-> image_source.height,
             format |-> "JPEG", mode |-> "RGB", source_type |-> "pil_image"]
      [] image_source.type = "ndarray" ->
            [width |-> image_source.width, height |-> image_source.height,
             channels |-> 3, dtype |-> "uint8", source_type |-> "numpy_array"]
      [] OTHER -> [source_type |-> "unknown"]

\* _get_image_info
_get_image_info(image_source) ==
    CASE image_source.type = "str" ->
            IF image_source.openable
            THEN [width |-> image_source.width, height |-> image_source.height,
                  format |-> "JPEG", mode |-> "RGB", source_type |-> "file_path"]
            ELSE [error |-> "cannot open image", source_type |-> "error"]
      [] image_source.type = "pil" ->
            [width |-> image_source.width, height |-> image_source.height,
             format |-> "JPEG", mode |-> "RGB", source_type |-> "pil_image"]
      [] image_source.type = "ndarray" ->
            [width |-> image_source.width, height |-> image_source.height,
             channels |-> 3, dtype |-> "uint8", source_type |-> "numpy_array"]
      [] OTHER -> [source_type |-> "unknown"]

Raise(s, err, infer, loaded) ==
    [s |-> s, raised |-> TRUE, error |-> Some(err), result |-> None, infer |-> infer,
     loaded |-> loaded]

\* detect_objects, whole: custom_config is None or Some(dict); load_ok is whether
\* a model load, if one is tried, succeeds; loaded is whether the call built a
\* Detector
detect_objects(s, image_source, custom_config, load_ok) ==
    IF custom_config = None
    THEN Raise(s, Error("AttributeError", "'NoneType' object has no attribute 'get'"), None, FALSE)
    ELSE
    LET custom == custom_config[1]
        init == initialize_model(s, RequestConfig(custom), load_ok)
        s1 == init.s
    IN  IF s1.model_config = None
        THEN Raise(s1, Error("ValueError", "Modelo nao inicializado. Chame initialize_model() primeiro."), None, init.loaded)
        ELSE
        LET config == _merge_configs(s1, custom)
            p == predict(s1, image_source, config["confidence"], config["iou_threshold"],
                         config["max_detections"],
                         IF "class_ids" \in DOMAIN config THEN Some(config["class_ids"]) ELSE None)
        IN  IF p.raised
            THEN Raise(s1, p.error[1], p.infer, init.loaded)
            ELSE
            LET detections == FilterTargetClasses(s1, _convert_to_domain_entities(p.raw))
                result == DetectionResult(detections, _get_image_info(image_source),
                                          image_source.seconds, get_model_info(s1))
            IN  [s |-> s1, raised |-> FALSE, error |-> None,
                 result |-> Some(result), infer |-> p.infer, loaded |-> init.loaded]

\* a failed slot that reports no model provenance
FailedResultNoProvenance(s, err) ==
    DetectionResult(<<>>, [error |-> err.msg], 0, [status |-> "not_loaded"])

\* the DetectionResult detect_objects_batch stores for an item that raised
FailedResult(s, err) ==
    DetectionResult(<<>>, [error |-> err.msg], 0, get_model_info(s))

\* detect_objects_batch: load_oks[i] is whether a load tried for item i succeeds.
\* The record holds the list returned, and for each item whether it raised,
\* the inference it made and the service state after it.
RECURSIVE BatchFrom(_, _, _, _, _)
BatchFrom(s, image_sources, custom_config, load_oks, i) ==
    IF i > Len(image_sources)
    THEN [s |-> s, raised |-> FALSE, results |-> <<>>, failed |-> <<>>,
          infers |-> <<>>, states |-> <<>>]
    ELSE
    LET r == detect_objects(s, image_sources[i], custom_config, load_oks[i])
    IN  IF r.raised /\ r.error[1].type \notin ExceptionTypes
        THEN [s |-> r.s, raised |-> TRUE, results |-> <<>>, failed |-> <<>>,
              infers |-> <<>>, states |-> <<>>]
        ELSE
        LET slot == IF r.raised THEN FailedResult(r.s, r.error[1]) ELSE r.result[1]
            rest == BatchFrom(r.s, image_sources, custom_config, load_oks, i + 1)
        IN  [s |-> rest.s, raised |-> rest.raised,
             results |-> <<slot>> \o rest.results,
             failed |-> <<r.raised>> \o rest.failed,
             infers |-> <<r.infer>> \o rest.infers,
             states |-> <<r.s>> \o rest.states]

\* a batch loop without the try/except: the first failing item ends the batch
RECURSIVE BatchAbortingFrom(_, _, _, _, _)
BatchAbortingFrom(s, image_sources, custom_config, load_oks, i) ==
    IF i > Len(image_sources)
    THEN [s |-> s, raised |-> FALSE, results |-> <<>>, failed |-> <<>>,
          infers |-> <<>>, states |-> <<>>]
    ELSE
    LET r == detect_objects(s, image_sources[i], custom_config, load_oks[i])
    IN  IF r.raised
        THEN [s |-> r.s, raised |-> TRUE, results |-> <<>>, failed |-> <<>>,
              infers |-> <<>>, states |-> <<>>]
        ELSE
        LET rest == BatchAbortingFrom(r.s, image_sources, custom_config, load_oks, i + 1)
        IN  [s |-> rest.s, raised |-> rest.raised,
             results |-> <<r.result[1]>> \o rest.results,
             failed |-> <<FALSE>> \o rest.failed,
             infers |-> <<r.infer>> \o rest.infers,
             states |-> <<r.s>> \o rest.states]

detect_objects_batch_aborting(s, image_sources, custom_config, load_oks) ==
    BatchAbortingFrom(s, image_sources, custom_config, load_oks, 1)

detect_objects_batch(s, image_sources, custom_config, load_oks) ==
    BatchFrom(s, image_sources, custom_config, load_oks, 1)

\* dataclasses.asdict of a ModelConfiguration: a dict of its six fields
asdict(cfg) ==
    [k \in {"model_name", "model_path", "confidence_threshold", "iou_threshold",
            "max_detections", "target_classes"} |-> cfg[k]]

\* a status that takes the model for loaded once a configuration is active
get_model_status_by_config(s) ==
    [model_loaded |-> s.model_config # None,
     model_config |-> IF s.model_config # None THEN Some(asdict(s.model_config[1])) ELSE None,
     model_info |-> get_model_info(s)]

\* get_model_status
get_model_status(s) ==
    LET model_info == get_model_info(s)
    IN [model_loaded |-> model_info.status = "loaded",
        model_config |-> IF s.model_config # None THEN Some(asdict(s.model_config[1])) ELSE None,
        model_info |-> model_info]

----------------------------------------------------------------------------
(* Sequential use of the service: one caller, one call at a time.  Each     *)
(* action runs a whole method and leaves in call what was asked and what    *)
(* came back; Return is the caller taking the outcome.                      *)

NoCall == [op |-> "none"]

\* the request threads of the server (used by the concurrent specification)
Threads == {"t1", "t2"}

IdleThread == [pc |-> "idle"]

Idle == call.op = "none"

SetState(s) ==
    /\ model_config' = s.model_config
    /\ model' = s.model
    /\ model_path' = s.model_path

\* the image_sources lists of at most MaxBatch items
BatchInputs == UNION {[1..n -> BatchSources] : n \in 0..MaxBatch}

Init ==
    /\ model_config = None
    /\ model = None
    /\ model_path = None
    /\ call = NoCall
    /\ th = [t \in Threads |-> IdleThread]

InitializeModel ==
    /\ Idle
    /\ UNCHANGED th
    /\ \E cfg \in InitConfigs, load_ok \in BOOLEAN :
        \E r \in {initialize_model(Current, cfg, load_ok)} :
           /\ SetState(r.s)
           /\ call' = [op |-> "initialize_model", pre |-> Current, cfg |-> cfg,
                       load_ok |-> load_ok, ret |-> r.ret, loaded |-> r.loaded]

DetectObjects ==
    /\ Idle
    /\ UNCHANGED th
    /\ \E image_source \in Sources, custom_config \in Overrides, load_ok \in BOOLEAN :
        \E r \in {detect_objects(Current, image_source, custom_config, load_ok)} :
           /\ SetState(r.s)
           /\ call' = [op |-> "detect_objects", pre |-> Current,
                       image_source |-> image_source, custom_config |-> custom_config,
                       load_ok |-> load_ok, raised |-> r.raised, error |-> r.error,
                       result |-> r.result, infer |-> r.infer, loaded |-> r.loaded]

DetectObjectsBatch ==
    /\ Idle
    /\ UNCHANGED th
    /\ \E image_sources \in BatchInputs, custom_config \in BatchOverrides :
       \E load_oks \in [1..Len(image_sources) -> BOOLEAN] :
        \E r \in {detect_objects_batch(Current, image_sources, custom_config, load_oks)} :
           /\ SetState(r.s)
           /\ call' = [op |-> "detect_objects_batch", pre |-> Current,
                       image_sources |-> image_sources, custom_config |-> custom_config,
                       load_oks |-> load_oks, raised |-> r.raised, results |-> r.results,
                       failed |-> r.failed, infers |-> r.infers, states |-> r.states]

LoadModel ==
    /\ Idle
    /\ UNCHANGED th
    /\ \E model_name \in ModelNames, load_ok \in BOOLEAN :
        \E r \in {load_model(Current, model_name, load_ok)} :
           /\ SetState(r.s)
           /\ call' = [op |-> "load_model", pre |-> Current, model_name |-> model_name,
                       load_ok |-> load_ok, raised |-> r.raised, loaded |-> r.loaded]

UnloadModel ==
    /\ Idle
    /\ UNCHANGED th
    /\ SetState(unload_model(Current))
    /\ call' = [op |-> "unload_model", pre |-> Current]

GetModelStatus ==
    /\ Idle
    /\ UNCHANGED th
    /\ call' = [op |-> "get_model_status", pre |-> Current,
                status |-> get_model_status(Current)]
    /\ UNCHANGED <<model_config, model, model_path>>

Return ==
    /\ ~Idle
    /\ UNCHANGED th
    /\ call' = NoCall
    /\ UNCHANGED <<model_config, model, model_path>>

Next ==
    \/ InitializeModel
    \/ DetectObjects
    \/ DetectObjectsBatch
    \/ LoadModel
    \/ UnloadModel
    \/ GetModelStatus
    \/ Return

Spec == Init /\ [][Next]_vars

----------------------------------------------------------------------------
(* Properties of detect_objects. *)

IsDetect == call.op = "detect_objects"

\* the configuration a request is to run under: the override's fields over the
\* configuration active before the call, or over the documented defaults
EffectiveConfiguration(pre, custom) ==
    LET base == IF pre.model_config = None
                THEN ModelConfiguration(DefaultModelName, DefaultModelPath, DefaultConfidence,
                                        DefaultIou, DefaultMaxDetections, None)
                ELSE pre.model_config[1]
    IN ModelConfiguration(base.model_name, base.model_path,
                          Get(custom, "confidence", base.confidence_threshold),
                          Get(custom, "iou_threshold", base.iou_threshold),
                          Get(custom, "max_detections", base.max_detections),
                          base.target_classes)

\* C1: a detect_objects call whose override makes the effective configuration
\* invalid raises, and the Detector is not invoked for it.
C1_InvalidConfigurationRejected ==
    (/\ IsDetect
     /\ call.custom_config # None
     /\ ~ConfigIsValid(EffectiveConfiguration(call.pre, call.custom_config[1])))
    => (call.raised /\ call.infer = None)

\* C2: with an allow-list S active before the call (set by an initialize_model
\* that also loaded the model), a successful detect_objects
\* returns exactly the converted detections whose class_name is in S, in the
\* Detector's order.
C2_TargetClassesKept ==
    (/\ IsDetect
     /\ ~call.raised
     /\ call.pre.model_config # None
     /\ call.pre.model_path = Some(call.pre.model_config[1].model_name)
     /\ call.pre.model_config[1].target_classes # None)
    => call.result[1].detections =
          SelectSeq(_convert_to_domain_entities(call.image_source.preds),
                    LAMBDA d : InList(d.class_name, call.pre.model_config[1].target_classes[1]))

\* C3: the thresholds handed to the Detector are the override's where it sets
\* them and those of the configuration active before the call where it does not
\* (the active configuration being one whose model is loaded).
C3_MergeOntoActiveConfiguration ==
    (/\ IsDetect
     /\ call.custom_config # None
     /\ call.pre.model_config # None
     /\ call.pre.model_path = Some(call.pre.model_config[1].model_name)
     /\ call.infer # None)
    => LET A == call.pre.model_config[1]
           O == call.custom_config[1]
       IN /\ call.infer[1].conf = Get(O, "confidence", A.confidence_threshold)
          /\ call.infer[1].iou = Get(O, "iou_threshold", A.iou_threshold)
          /\ call.infer[1].max_det = Get(O, "max_detections", A.max_detections)

\* C4: detect_objects without an override, on a service with no active
\* configuration, invokes the Detector with the defaults 0.25, 0.45, 1000 and
\* returns a DetectionResult (the model loads, the image is readable).
C4_NoOverrideRunsWithDefaults ==
    (/\ IsDetect
     /\ call.custom_config = None
     /\ call.pre.model_config = None
     /\ call.load_ok
     /\ call.image_source.readable)
    => /\ ~call.raised
       /\ call.result # None
       /\ call.infer # None
       /\ call.infer[1].conf = DefaultConfidence
       /\ call.infer[1].iou = DefaultIou
       /\ call.infer[1].max_det = DefaultMaxDetections

\* the request tried to load its model and the load failed
LoadFailedInCall ==
    /\ IsDetect
    /\ call.custom_config # None
    /\ ConfigIsValid(RequestConfig(call.custom_config[1]))
    /\ load_model(call.pre, DefaultModelName, call.load_ok).raised

\* C5: when the load of the request's model fails, detect_objects raises,
\* returns no DetectionResult and runs no inference on any handle.
C5_LoadFailureAborts ==
    LoadFailedInCall => (call.raised /\ call.result = None /\ call.infer = None)

\* C6: with model identifier M configured and loaded through initialize_model,
\* a successful detect_objects infers on a handle loaded for M and reports M.
C6_UsesConfiguredModel ==
    (/\ IsDetect
     /\ ~call.raised
     /\ call.pre.model_config # None
     /\ call.pre.model_path = Some(call.pre.model_config[1].model_name))
    => /\ call.infer[1].handle.weights = call.pre.model_config[1].model_name
       /\ call.result[1].model_info.model_path = Some(call.pre.model_config[1].model_name)

----------------------------------------------------------------------------
(* Properties of detect_objects_batch. *)

IsBatch == call.op = "detect_objects_batch"

\* the service state item i of the batch starts from
StateBefore(i) == IF i = 1 THEN call.pre ELSE call.states[i - 1]

\* what detect_objects does with item i alone
ItemOutcome(i) ==
    detect_objects(StateBefore(i), call.image_sources[i], call.custom_config, call.load_oks[i])

\* C7: detect_objects_batch does not raise; the list it returns is as long as
\* the input and slot i holds the outcome of item i, whatever items fail.
C7_BatchTotalInOrder ==
    IsBatch =>
        /\ ~call.raised
        /\ Len(call.results) = Len(call.image_sources)
        /\ Len(call.failed) = Len(call.image_sources)
        /\ \A i \in 1..Len(call.image_sources) :
            /\ call.failed[i] = ItemOutcome(i).raised
            /\ ~ItemOutcome(i).raised => call.results[i] = ItemOutcome(i).result[1]
            /\ ItemOutcome(i).raised => call.results[i].detections = <<>>

\* a batch whose first item failed and whose second item was still processed
C7_Witness ==
    /\ IsBatch
    /\ Len(call.image_sources) >= 2
    /\ call.failed[1]
    /\ ~call.failed[2]
    /\ call.results[2].detections # <<>>

\* C8: the slot of a failed item has no detections, an image_info with the
\* error description, processing_time 0 and the model provenance of the
\* moment of the failure.
C8_FailedSlotContents ==
    IsBatch =>
        \A i \in 1..Len(call.results) :
            call.failed[i] =>
                /\ call.results[i].detections = <<>>
                /\ "error" \in DOMAIN call.results[i].image_info
                /\ call.results[i].image_info.error = ItemOutcome(i).error[1].msg
                /\ call.results[i].processing_time = 0
                /\ call.results[i].model_info = get_model_info(call.states[i])

\* a failed slot written while a model was loaded
C8_Witness ==
    /\ IsBatch
    /\ \E i \in 1..Len(call.results) :
        /\ call.failed[i]
        /\ call.results[i].model_info.status = "loaded"

\* C9 as claimed: image_info carries an error description if and only if the
\* item failed.
C9_ErrorIffFailed ==
    IsBatch =>
        \A i \in 1..Len(call.results) :
            call.failed[i] <=> ("error" \in DOMAIN call.results[i].image_info)

\* C9 amended: image_info is an error description without a source_type tag
\* if and only if the item failed; the slot of an item that succeeded always
\* has a source_type tag.
C9_UntaggedErrorIffFailed ==
    IsBatch =>
        \A i \in 1..Len(call.results) :
            call.failed[i] <=>
                (/\ "error" \in DOMAIN call.results[i].image_info
                 /\ "source_type" \notin DOMAIN call.results[i].image_info)

\* a batch with a failed item and an item that succeeded but whose image
\* metadata could not be read
C9_Witness ==
    /\ IsBatch
    /\ \E i, j \in 1..Len(call.results) :
        /\ call.failed[i]
        /\ ~call.failed[j]
        /\ "error" \in DOMAIN call.results[j].image_info

\* the loader holds a handle stored under model_name
Cached(s, model_name) == s.model # None /\ s.model_path = Some(model_name)

\* the items of the batch whose detect_objects built a Detector
BatchLoads == {i \in 1..Len(call.image_sources) : ItemOutcome(i).loaded}

\* C13: in sequential use load_model(name) builds a Detector only when none
\* is loaded or the loaded one has another name; when the name is already
\* loaded it returns without error and changes nothing; and a run of
\* successful detections builds the Detector once if it was not loaded under
\* the requested name before, and not at all if it was.
C13_LoadIdempotent ==
    /\ call.op = "load_model" =>
          IF Cached(call.pre, call.model_name)
          THEN ~call.loaded /\ ~call.raised /\ Current = call.pre
          ELSE call.loaded = call.load_ok
    /\ IsDetect => (call.loaded => ~Cached(call.pre, DefaultModelName))
    /\ (/\ IsBatch
        /\ Len(call.image_sources) >= 1
        /\ \A i \in 1..Len(call.image_sources) : ~call.failed[i])
       => Cardinality(BatchLoads) = IF Cached(call.pre, DefaultModelName) THEN 0 ELSE 1

\* detection d copies the class, the confidence and the box of prediction raw
CopiesPrediction(d, raw) ==
    /\ d.class_id = raw.class_id
    /\ d.class_name = raw.class_name
    /\ d.confidence = raw.confidence
    /\ d.bbox.x1 = raw.bbox.x1 /\ d.bbox.y1 = raw.bbox.y1
    /\ d.bbox.x2 = raw.bbox.x2 /\ d.bbox.y2 = raw.bbox.y2

\* C14: when the active configuration has no target_classes, a successful
\* detect_objects returns one detection per raw prediction of the Detector,
\* in the Detector's order, each copying its prediction's class_id,
\* class_name, confidence and box; a prediction below the confidence the
\* request ran with is among them.
C14_PredictionsCopiedInOrder ==
    (/\ IsDetect
     /\ ~call.raised
     /\ model_config[1].target_classes = None)
    => LET preds == call.image_source.preds
           detections == call.result[1].detections
       IN /\ Len(detections) = Len(preds)
          /\ \A i \in 1..Len(preds) : CopiesPrediction(detections[i], preds[i])

\* a successful detection whose second prediction is below the confidence
\* handed to the Detector
C14_Witness ==
    /\ IsDetect
    /\ ~call.raised
    /\ model_config[1].target_classes = None
    /\ Len(call.image_source.preds) = 2
    /\ call.image_source.preds[2].confidence < call.infer[1].conf
    /\ call.image_source.preds[1].confidence >= call.infer[1].conf

\* C19: after any sequence of initialize_model, detect_objects,
\* detect_objects_batch, load_model and unload_model, get_model_status reports
\* model_loaded exactly when the loader holds a handle, the active
\* configuration (None when there is none), and the handle's name, device and
\* task or the not_loaded marker; and it changes nothing.
C19_StatusReflectsState ==
    call.op = "get_model_status" =>
        /\ call.status.model_loaded = (model # None)
        /\ call.status.model_config = model_config
        /\ call.status.model_info =
              IF model = None
              THEN [status |-> "not_loaded"]
              ELSE [status |-> "loaded", model_path |-> model_path,
                    device |-> model[1].device, task |-> model[1].task]
        /\ Current = call.pre

\* the status of a service whose configuration was accepted and whose load
\* failed: a configuration and no model
C19_Witness ==
    /\ call.op = "get_model_status"
    /\ model_config # None
    /\ model = None
    /\ ~call.status.model_loaded

\* C20: in every state reached through initialize_model, detect_objects and
\* detect_objects_batch, with valid or invalid inputs and with load failures,
\* the active configuration is None or satisfies is_valid: both thresholds in
\* [0, 1] and max_detections positive.
C20_ActiveConfigurationValid ==
    model_config = None \/ ConfigIsValid(model_config[1])

\* an invalid configuration has been offered to a service that had one, and
\* the active one is still there
C20_Witness ==
    /\ call.op = "initialize_model"
    /\ ~ConfigIsValid(call.cfg)
    /\ call.pre.model_config # None
    /\ model_config = call.pre.model_config

\* C21: initialize_model with an invalid configuration returns False and
\* leaves the active configuration, the model handle and the model name as
\* they were, and builds no Detector, also when a load would have succeeded.
C21_InvalidConfigurationNoEffect ==
    (call.op = "initialize_model" /\ ~ConfigIsValid(call.cfg)) =>
        /\ call.ret = FALSE
        /\ Current = call.pre
        /\ ~call.loaded

\* an invalid configuration naming a model other than the loaded one, at a
\* moment when that model could have been loaded
C21_Witness ==
    /\ call.op = "initialize_model"
    /\ ~ConfigIsValid(call.cfg)
    /\ call.load_ok
    /\ call.pre.model # None
    /\ ~Cached(call.pre, call.cfg.model_name)
    /\ call.ret = FALSE
    /\ model = call.pre.model

----------------------------------------------------------------------------
(* Concurrent use: the request threads of the server share one service      *)
(* (get_detection_service) and each runs detect_objects.  Nothing in the    *)
(* service or the loader takes a lock, so a thread can be preempted between *)
(* any two statements; the steps below are the statements that read or      *)
(* write the shared model_config, model and model_path.                     *)

ConcSources == {LocalFile, MissingFile}

ConcOverrides ==
    {None} \cup {Some(d) : d \in {e \in OverrideDicts : Cardinality(DOMAIN e) <= 1}}

\* default_config of get_detection_service
ControllerDefaultConfig ==
    ModelConfiguration(DefaultModelName, DefaultModelPath, DefaultConfidence,
                       DefaultIou, DefaultMaxDetections, None)

At(t, pc) == th[t].pc = pc

Goto(t, pc) == th' = [th EXCEPT ![t].pc = pc]

RaiseIn(t, err) ==
    th' = [th EXCEPT ![t].pc = "done", ![t].raised = TRUE, ![t].error = Some(err)]

\* the service as get_detection_service leaves it: created and initialized
\* with the default configuration, the load having succeeded or not
InitConc ==
    /\ \E load_ok \in BOOLEAN :
        LET s == initialize_model(ServiceState(None, None, None),
                                  ControllerDefaultConfig, load_ok).s
        IN /\ model_config = s.model_config
           /\ model = s.model
           /\ model_path = s.model_path
    /\ call = NoCall
    /\ th = [t \in Threads |-> IdleThread]

\* a request arrives: service.detect_objects(image_source, custom_config)
CallDetect(t) ==
    /\ At(t, "idle")
    /\ \E image_source \in ConcSources, custom_config \in ConcOverrides :
        th' = [th EXCEPT ![t] =
                 [pc |-> "init", image_source |-> image_source,
                  custom_config |-> custom_config, config |-> None,
                  pending |-> None, infer |-> None, detections |-> <<>>,
                  raised |-> FALSE, error |-> None, result |-> None,
                  loaded |-> FALSE]]
    /\ UNCHANGED <<model_config, model, model_path, call>>

\* lines 47-55 up to initialize_model's line 31: build the request's
\* configuration, check it and store it in self.model_config
StepInit(t) ==
    /\ At(t, "init")
    /\ IF th[t].custom_config = None
       THEN /\ RaiseIn(t, Error("AttributeError", "'NoneType' object has no attribute 'get'"))
            /\ UNCHANGED model_config
       ELSE IF ConfigIsValid(RequestConfig(th[t].custom_config[1]))
            THEN /\ model_config' = Some(RequestConfig(th[t].custom_config[1]))
                 /\ Goto(t, "load")
            ELSE /\ Goto(t, "check")
                 /\ UNCHANGED model_config
    /\ UNCHANGED <<model, model_path, call>>

\* initialize_model's line 32 entering load_model, whose line 23 tests the
\* cache: the handle is there and was stored under the same name.  Nothing
\* is held between this test and the assignments below.
StepLoadCheck(t) ==
    /\ At(t, "load")
    /\ IF model # None /\ model_path = Some(RequestConfig(th[t].custom_config[1]).model_name)
       THEN Goto(t, "check")
       ELSE Goto(t, "construct")
    /\ UNCHANGED <<model_config, model, model_path, call>>

\* load_model's line 34: the Detector is built and stored in self.model; a
\* failure leaves the loader alone and is swallowed by initialize_model
StepLoadConstruct(t) ==
    /\ At(t, "construct")
    /\ \E load_ok \in BOOLEAN :
        IF load_ok
        THEN /\ model' = Some(YOLO(RequestConfig(th[t].custom_config[1]).model_name))
             /\ th' = [th EXCEPT ![t].pc = "assign", ![t].loaded = TRUE]
        ELSE /\ Goto(t, "check")
             /\ UNCHANGED model
    /\ UNCHANGED <<model_config, model_path, call>>

\* load_model's line 36: the name is stored in self.model_path
StepLoadAssign(t) ==
    /\ At(t, "assign")
    /\ model_path' = Some(RequestConfig(th[t].custom_config[1]).model_name)
    /\ Goto(t, "check")
    /\ UNCHANGED <<model_config, model, call>>

\* lines 57-63: the None check and _merge_configs, reading self.model_config
StepMerge(t) ==
    /\ At(t, "check")
    /\ IF model_config = None
       THEN RaiseIn(t, Error("ValueError", "Modelo nao inicializado. Chame initialize_model() primeiro."))
       ELSE th' = [th EXCEPT ![t].pc = "predict",
                             ![t].config = Some(_merge_configs(Current, th[t].custom_config[1]))]
    /\ UNCHANGED <<model_config, model, model_path, call>>

\* lines 65-71 and predict's lines 103-107: the handle is read and called
StepPredict(t) ==
    /\ At(t, "predict")
    /\ LET config == th[t].config[1]
           p == predict(Current, th[t].image_source, config["confidence"],
                        config["iou_threshold"], config["max_detections"],
                        IF "class_ids" \in DOMAIN config THEN Some(config["class_ids"]) ELSE None)
       IN IF p.infer = None
          THEN RaiseIn(t, p.error[1])
          ELSE th' = [th EXCEPT ![t].pc = "infer", ![t].infer = p.infer,
                                ![t].pending = Some(p)]
    /\ UNCHANGED <<model_config, model, model_path, call>>

\* predict's lines 107-144: the inference in flight ends
StepInferDone(t) ==
    /\ At(t, "infer")
    /\ LET p == th[t].pending[1]
       IN IF p.raised
          THEN RaiseIn(t, p.error[1])
          ELSE th' = [th EXCEPT ![t].pc = "filter",
                                ![t].detections = _convert_to_domain_entities(p.raw)]
    /\ UNCHANGED <<model_config, model, model_path, call>>

\* lines 75-79: the filter, reading self.model_config.target_classes
StepFilter(t) ==
    /\ At(t, "filter")
    /\ th' = [th EXCEPT ![t].pc = "assemble",
                        ![t].detections = FilterTargetClasses(Current, th[t].detections)]
    /\ UNCHANGED <<model_config, model, model_path, call>>

\* lines 81-94: the result, reading the loader's get_model_info
StepAssemble(t) ==
    /\ At(t, "assemble")
    /\ th' = [th EXCEPT ![t].pc = "done",
                        ![t].result = Some(DetectionResult(th[t].detections,
                                                _get_image_info(th[t].image_source),
                                                th[t].image_source.seconds,
                                                get_model_info(Current)))]
    /\ UNCHANGED <<model_config, model, model_path, call>>

\* the request handler takes the result or the exception
ReturnThread(t) ==
    /\ At(t, "done")
    /\ th' = [th EXCEPT ![t] = IdleThread]
    /\ UNCHANGED <<model_config, model, model_path, call>>

\* one step of the request served by thread t
RequestStep(t) ==
    \/ CallDetect(t)
    \/ StepInit(t)
    \/ StepLoadCheck(t)
    \/ StepLoadConstruct(t)
    \/ StepLoadAssign(t)
    \/ StepMerge(t)
    \/ StepPredict(t)
    \/ StepInferDone(t)
    \/ StepFilter(t)
    \/ StepAssemble(t)
    \/ ReturnThread(t)

NextConc == \E t \in Threads : RequestStep(t)

SpecConc == InitConc /\ [][NextConc]_vars

\* C10: in any interleaving of detect_objects calls, the thresholds a request
\* hands to the Detector are those it gets when run alone, its override's
\* fields over the defaults, whatever the other request's override is; and no
\* class filter of another origin is applied to it.
C10_NoLeakBetweenRequests ==
    \A t \in Threads :
        (/\ ~At(t, "idle")
         /\ th[t].custom_config # None
         /\ ConfigIsValid(RequestConfig(th[t].custom_config[1]))
         /\ th[t].infer # None)
        => LET alone == RequestConfig(th[t].custom_config[1])
           IN /\ th[t].infer[1].conf = alone.confidence_threshold
              /\ th[t].infer[1].iou = alone.iou_threshold
              /\ th[t].infer[1].max_det = alone.max_detections
              /\ (At(t, "done") /\ ~th[t].raised) =>
                    th[t].result[1].detections =
                        _convert_to_domain_entities(th[t].image_source.preds)

\* the requests in progress that have built a Detector (load_model line 34)
LoadsInProgress == {t \in Threads : ~At(t, "idle") /\ th[t].loaded}

\* C11: in any interleaving of detect_objects calls, which all need the same
\* model identifier, the Detector is built at most once: no two requests in
\* progress have both performed the load.
C11_LoadedAtMostOnce == Cardinality(LoadsInProgress) <= 1

-----------------------------------------------------------------------------
(* One request thread and the loader's other two operations: while the     *)
(* request runs, another caller of the shared loader asks for a model by    *)
(* name or unloads the current one.  Each of the two runs as one step.      *)

\* model_loader.load_model(model_name) from another caller
ConcLoadModel ==
    /\ \E model_name \in ModelNames, load_ok \in BOOLEAN :
        SetState(load_model(Current, model_name, load_ok).s)
    /\ UNCHANGED <<call, th>>

\* model_loader.unload_model() from another caller
ConcUnloadModel ==
    /\ SetState(unload_model(Current))
    /\ UNCHANGED <<call, th>>

\* the thread whose requests run beside the loader's other caller
RequestThread == "t1"

NextReload ==
    \/ RequestStep(RequestThread)
    \/ ConcLoadModel
    \/ ConcUnloadModel

SpecReload == InitConc /\ [][NextReload]_vars

\* the inference of request t is in flight: the handle has been called
\* (predict line 107) and has not returned
InFlight(t) == At(t, "infer")

\* C12: while a predict call is in flight, the loader still holds the handle
\* that call is using: no load_model for another identifier and no
\* unload_model has replaced or cleared it.
C12_HandleStableInFlight ==
    \A t \in Threads : InFlight(t) => model = Some(th[t].infer[1].handle)

----------------------------------------------------------------------------
(* The domain entities on their own: a Detection and a DetectionResult are  *)
(* given, and a caller applies is_valid, filter_by_confidence and           *)
(* get_statistics to them.                                                  *)

\* the longest detection list of a result under test
MaxLen == 2

\* confidences in and out of [0, 1], and the minimum confidences asked for
TestConfidences == {-10, 0, 10, 90, 100, 120}

MinConfidences == {0, 10, 50, 100}

\* a proper box, one of zero width and one of negative height
TestBoxes == {BoundingBox(0, 0, 10, 10), BoundingBox(5, 5, 5, 8), BoundingBox(0, 8, 10, 5)}

TestDetections ==
    {Detection(0, "bottle", confidence, bbox, None) :
        confidence \in TestConfidences, bbox \in TestBoxes}

\* the detections of the results under test: the two the Detector finds in
\* LocalFile and a third between them
ResultDetections ==
    {_convert_to_domain_entities(<<RawBottle, RawBag>>)[i] : i \in 1..2}
        \cup {Detection(0, "bottle", 50, BoundingBox(1, 1, 4, 4), None)}

TestResults ==
    {DetectionResult(detections, _get_image_info(LocalFile), processing_time,
                     get_model_info(ServiceState(None, Some(YOLO(DefaultModelName)),
                                                 Some(DefaultModelName)))) :
        detections \in UNION {[1..n -> ResultDetections] : n \in 0..MaxLen},
        processing_time \in {0, 2}}

Given == call.op = "given"

InitEntities ==
    /\ model_config = None
    /\ model = None
    /\ model_path = None
    /\ th = [t \in Threads |-> IdleThread]
    /\ \E d \in TestDetections, r \in TestResults :
        call = [op |-> "given", d |-> d, r |-> r]

\* d.is_valid(min_confidence)
IsValid ==
    /\ Given
    /\ \E min_confidence \in MinConfidences :
        call' = [op |-> "is_valid", d |-> call.d, r |-> call.r,
                 min_confidence |-> min_confidence,
                 ret |-> is_valid(call.d, min_confidence)]
    /\ UNCHANGED <<model_config, model, model_path, th>>

\* r.filter_by_confidence(min_confidence): a new list is returned, r is not
\* assigned to
FilterByConfidence ==
    /\ Given
    /\ \E min_confidence \in MinConfidences :
        call' = [op |-> "filter_by_confidence", d |-> call.d, r |-> call.r,
                 pre |-> call.r, min_confidence |-> min_confidence,
                 ret |-> filter_by_confidence(call.r, min_confidence)]
    /\ UNCHANGED <<model_config, model, model_path, th>>

\* r.get_statistics()
GetStatistics ==
    /\ Given
    /\ call' = [op |-> "get_statistics", d |-> call.d, r |-> call.r,
                ret |-> get_statistics(call.r)]
    /\ UNCHANGED <<model_config, model, model_path, th>>

\* the caller takes the value; the entities are as they were given
Taken ==
    /\ ~Given
    /\ call' = [op |-> "given", d |-> call.d, r |-> call.r]
    /\ UNCHANGED <<model_config, model, model_path, th>>

NextEntities ==
    \/ IsValid
    \/ FilterByConfidence
    \/ GetStatistics
    \/ Taken

SpecEntities == InitEntities /\ [][NextEntities]_vars

\* C15: is_valid(c) is true exactly when the confidence is at least c and in
\* [0, 1] and the box has positive width and positive height; for a box of
\* zero or negative width or height it is false.
C15_IsValidIff ==
    call.op = "is_valid" =>
        LET d == call.d
        IN /\ call.ret = (/\ d.confidence >= call.min_confidence
                          /\ 0 <= d.confidence /\ d.confidence <= 100
                          /\ d.bbox.x2 - d.bbox.x1 > 0
                          /\ d.bbox.y2 - d.bbox.y1 > 0)
           /\ (d.bbox.x2 <= d.bbox.x1 \/ d.bbox.y2 <= d.bbox.y1) => call.ret = FALSE

\* is_valid has answered False for a box of zero width whose confidence
\* passes both confidence tests
C15_Witness ==
    /\ call.op = "is_valid"
    /\ call.d.bbox.x2 = call.d.bbox.x1
    /\ call.d.confidence >= call.min_confidence
    /\ 0 <= call.d.confidence /\ call.d.confidence <= 100
    /\ call.ret = FALSE

\* the positions of r's detections whose confidence is at least c
Passing(r, c) == {i \in 1..Len(r.detections) : r.detections[i].confidence >= c}

\* the k-th smallest member of the set of positions I
Nth(I, k) == CHOOSE j \in I : Cardinality({i \in I : i <= j}) = k

\* C16: filter_by_confidence(c) returns the detections of r with confidence
\* at least c, every one of them and no other, in the order they have in r,
\* and r's own list is as before.
C16_FilterExactInOrder ==
    call.op = "filter_by_confidence" =>
        LET I == Passing(call.pre, call.min_confidence)
        IN /\ Len(call.ret) = Cardinality(I)
           /\ \A k \in 1..Len(call.ret) : call.ret[k] = call.pre.detections[Nth(I, k)]
           /\ call.r.detections = call.pre.detections

\* a filter that kept a detection whose confidence equals the minimum and
\* dropped one below it
C16_Witness ==
    /\ call.op = "filter_by_confidence"
    /\ \E i, j \in 1..Len(call.pre.detections) :
        /\ call.pre.detections[i].confidence = call.min_confidence
        /\ call.pre.detections[j].confidence < call.min_confidence
    /\ Len(call.ret) = 1

\* C17: for a result with no detections get_statistics returns
\* total_detections 0, no unique classes, and 0.0 for the average, the
\* maximum and the minimum confidence.
C17_EmptyStatistics ==
    (call.op = "get_statistics" /\ call.r.detections = <<>>) =>
        /\ call.ret.total_detections = 0
        /\ call.ret.unique_classes = {}
        /\ call.ret.avg_confidence = Float(0)
        /\ call.ret.max_confidence = 0
        /\ call.ret.min_confidence = 0

C17_Witness ==
    /\ call.op = "get_statistics"
    /\ call.r.detections = <<>>
    /\ call.ret.total_detections = 0

\* the fields of the statistics record
StatisticsFields ==
    {"total_detections", "unique_classes", "avg_confidence", "max_confidence",
     "min_confidence", "processing_time"}

\* C18: for every result, empty or not, get_statistics returns a record of
\* the same six fields, with processing_time that of the result and
\* total_detections its detection_count.
C18_SixFields ==
    call.op = "get_statistics" =>
        /\ DOMAIN call.ret = StatisticsFields
        /\ call.ret.processing_time = call.r.processing_time
        /\ call.ret.total_detections = detection_count(call.r)

====
